---- MODULE Spec2Model ----
(***************************************************************************)
(* Health-monitoring and notification engine of LifeMonitor.               *)
(*                                                                         *)
(*   Spec        the polling jobs check_last_build and check_workflows     *)
(*               (lifemonitor/tasks/tasks.py) run by concurrent workers    *)
(*               against a CI service that keeps publishing builds          *)
(*   SpecStatus  Status.check_status (lifemonitor/api/models/status.py)    *)
(*               on bounded lists of suites                                *)
(*   SpecMail    send_email_notifications (lifemonitor/tasks/tasks.py)     *)
(*   SpecMailEdits  the same, with users who edit their address            *)
(*   SpecMailOverlap  two invocations of send_email_notifications at once  *)
(*   SpecHealth  Workflow.check_health / WorkflowVersion.check_health      *)
(*               (lifemonitor/api/models/workflows.py)                     *)
(*   SpecReg     add_version and WorkflowVersion.delete                    *)
(*   SpecLife    cleanup_notifications and check_email_configuration with  *)
(*               check_last_build over build histories that do not change  *)
(*   SpecSched   the task queue fed by @schedule, with the expiration of   *)
(*               @dramatiq.actor(max_age=TASK_EXPIRATION_TIME)             *)
(***************************************************************************)
EXTENDS Integers, Sequences, FiniteSets, Bags, TLC

VARIABLES
    history,        \* CI service: instance -> statuses of its builds, oldest first (index = build id)
    lock,           \* cache transactions: resource key -> the worker inside it, or None
    notifications,  \* the Notification table: a bag of notification records
    job,            \* worker -> the job it runs, or None
    pc,             \* worker -> its position in the job's body
    pos,            \* worker -> [w, k]: index of the workflow and of the resource in it
    builds,         \* worker -> local `builds` of check_last_build
    last_build,     \* worker -> local `last_build` of check_last_build
    last,           \* worker -> how its pass over the previous resource ended
    acting,         \* worker -> the user logged in in its request context, or None
    cs_suites,      \* check_status: the argument `suites`
    cs_pc,          \* check_status: position in the body
    cs_pos,         \* check_status: [s, i] indices of the suite and test instance
    cs_status,      \* check_status: local `status`
    cs_builds,      \* check_status: local `latest_builds`
    cs_issues,      \* check_status: local `availability_issues`
    email,          \* user -> address, or None
    enabled,        \* user -> email_notifications_enabled
    emailed,        \* notification -> (recipient -> value of `emailed`, or None)
    m_pc,           \* send_email_notifications: position in the body
    m_todo,         \* send_email_notifications: notifications still to process
    m_recipients,   \* send_email_notifications: local `recipients`
    m_calls,        \* mail transport: the calls made, <<notification, recipients>>
    m_count,        \* send_email_notifications: local `count`
    m_sent,         \* send_email_notifications: local `sent`
    now,            \* the clock, in days
    purged,         \* the notifications cleanup_notifications has deleted
    e_pc,           \* check_email_configuration: position in the body
    e_todo,         \* check_email_configuration: users of User.all() still to visit
    e_users,        \* check_email_configuration: local `users`
    clock,          \* the clock of the task queue, in milliseconds
    queue,          \* the task queue: the messages sent and not yet taken, oldest first
    running,        \* worker -> the message whose body it executes, or NoMsg
    ended,          \* worker -> how the last message it took ended
    m2_pc,          \* a second invocation of send_email_notifications: position in the body
    m2_todo,        \* the second invocation: notifications still to process
    m2_recipients,  \* the second invocation: local `recipients`
    m2_count,       \* the second invocation: local `count`
    m2_sent,        \* the second invocation: local `sent`
    h_suites,       \* check_health: self.test_suites, the answer of each test instance
    h_pc,           \* check_health: "rest", "returned" or "raised"
    health,         \* check_health: the dictionary returned
    live,           \* the workflows of the registry
    versions        \* workflow -> the versions in its collection `versions`

pollVars == <<history, lock, notifications, job, pc, pos, builds, last_build, last, acting>>
statusVars == <<cs_suites, cs_pc, cs_pos, cs_status, cs_builds, cs_issues>>
mailVars == <<email, enabled, emailed, m_pc, m_todo, m_recipients, m_calls, m_count, m_sent>>
lifeVars == <<now, purged, e_pc, e_todo, e_users>>
schedVars == <<clock, queue, running, ended>>
run2Vars == <<m2_pc, m2_todo, m2_recipients, m2_count, m2_sent>>
healthVars == <<h_suites, h_pc, health>>
regVars == <<live, versions>>
vars == <<pollVars, statusVars, mailVars, lifeVars, schedVars, run2Vars, healthVars, regVars>>

None == "None"

\* the value None of UserNotification.emailed (the values set are positive)
Unset == 0

\* the value None where a build is expected
NoBuild == [id |-> 0, status |-> None]

(***************************************************************************)
(* Bounds                                                                  *)
(***************************************************************************)
\* number of builds the CI service publishes over a behaviour
MaxBuilds == 3

\* number of test instances of a suite handed to check_status
MaxInstances == 2

\* number of calls of the mail transport over a behaviour
MaxCalls == 3

\* number of days the clock runs
MaxTime == 2

\* number of notifications cleanup_notifications deletes over a behaviour
MaxPurged == 2

\* one_week_ago = current_time - datetime.timedelta(days=0)
RetentionDays == 0

\* the retention period the cutoff `one_week_ago` is named after, in days
Week == 7

\* number of steps of the clock of the task queue
MaxClock == 3

\* number of messages waiting in the task queue
MaxQueue == 1

\* TASK_EXPIRATION_TIME = 30000: expiration time (in msec) of tasks
TASK_EXPIRATION_TIME == 30000

\* get_test_builds(limit=10)
BuildsLimit == 10

(***************************************************************************)
(* The monitored resources                                                 *)
(***************************************************************************)
Workers == {"k1", "k2"}

\* Workflow.all()
Workflows == <<"w1", "w2">>

\* w.versions.values()
Versions(w) == IF w = "w1" THEN <<"v2", "v1">> ELSE <<"v3">>

Created(v) == IF v = "v2" THEN 2 ELSE 1

AllVersions == {"v1", "v2", "v3"}

Range(s) == {s[x] : x \in DOMAIN s}

\* Workflow.latest_version: max(self.versions.values(), key=lambda v: v.created)
latest_version(w) ==
    CHOOSE v \in Range(Versions(w)) : \A u \in Range(Versions(w)) : Created(v) >= Created(u)

\* latest_version.test_suites
TestSuites(v) == IF v = "v2" THEN <<"s1">> ELSE IF v = "v3" THEN <<"s2">> ELSE <<>>

\* s.test_instances
TestInstances(s) == IF s = "s1" THEN <<"i1", "i2">> ELSE <<>>

AllInstances == {"i1", "i2"}

RECURSIVE Flatten(_)
Flatten(ss) == IF ss = <<>> THEN <<>> ELSE Head(ss) \o Flatten(Tail(ss))

\* the test instances check_last_build visits for workflow w, in loop order
InstancesOf(w) ==
    LET suites == TestSuites(latest_version(w))
    IN Flatten([x \in DOMAIN suites |-> TestInstances(suites[x])])

CLB == "check_last_build"
CW == "check_workflows"

\* the resources one run of a job visits for the workflow of index w
Items(j, w) == IF j = CLB THEN InstancesOf(Workflows[w]) ELSE Versions(Workflows[w])

Keys == AllInstances \cup AllVersions

Statuses == {"passed", "failed", "other"}

Decisive == {"failed", "passed"}


Min(a, b) == IF a < b THEN a ELSE b

RECURSIVE SumLen(_, _)
SumLen(h, S) ==
    IF S = {} THEN 0
    ELSE LET x == CHOOSE y \in S : TRUE IN Len(h[x]) + SumLen(h, S \ {x})

(***************************************************************************)
(* The testing service of a test instance                                  *)
(***************************************************************************)
\* i.get_test_builds(limit): the most recent builds, newest first
get_test_builds(i, limit) ==
    LET h == history[i]
        n == Len(h)
    IN [x \in 1..Min(n, limit) |-> [id |-> n - x + 1, status |-> h[n - x + 1]]]

\* i.last_test_build: the most recent build, None when the instance has none
last_test_build(i) ==
    LET h == history[i]
    IN IF Len(h) = 0 THEN NoBuild ELSE [id |-> Len(h), status |-> h[Len(h)]]

(***************************************************************************)
(* cache.transaction(key): the per-resource lock                           *)
(***************************************************************************)
TransactionFree(key) == lock[key] = None

TransactionEnter(key, p) == [lock EXCEPT ![key] = p]

TransactionExit(key) == [lock EXCEPT ![key] = None]

(***************************************************************************)
(* The loops of check_last_build and check_workflows                       *)
(***************************************************************************)
IdlePos == [w |-> 0, k |-> 0]

NoBuilds == <<>>

\* index of the first workflow at or after w that has a resource to visit, 0 when none
RECURSIVE FirstWorkflow(_, _)
FirstWorkflow(j, w) ==
    IF w > Len(Workflows) THEN 0
    ELSE IF Len(Items(j, w)) > 0 THEN w
    ELSE FirstWorkflow(j, w + 1)

WorkflowPos(j, w) ==
    LET f == FirstWorkflow(j, w) IN IF f = 0 THEN IdlePos ELSE [w |-> f, k |-> 1]

\* the resource a worker is at
Item(p) == Items(job[p], pos[p].w)[pos[p].k]

\* where the loops go when the pass over the current resource completes
AfterItem(p) ==
    IF pos[p].k < Len(Items(job[p], pos[p].w))
    THEN [w |-> pos[p].w, k |-> pos[p].k + 1]
    ELSE WorkflowPos(job[p], pos[p].w + 1)

\* where the loops go when an exception reaches `except Exception` of the
\* `for w in Workflow.all()` body: the next workflow
AfterError(p) == WorkflowPos(job[p], pos[p].w + 1)

\* the worker moves to position q; `how` says how the pass over the resource ended
Goto(p, q, how) ==
    /\ pos' = [pos EXCEPT ![p] = q]
    /\ pc' = [pc EXCEPT ![p] = IF q = IdlePos THEN "idle" ELSE "enter"]
    /\ job' = [job EXCEPT ![p] = IF q = IdlePos THEN None ELSE job[p]]
    /\ builds' = [builds EXCEPT ![p] = NoBuilds]
    /\ last_build' = [last_build EXCEPT ![p] = NoBuild]
    /\ last' = [last EXCEPT ![p] = how]

\* an exception raised before the transaction is entered
RaiseOutside(p, how) ==
    /\ Goto(p, AfterError(p), how)
    /\ UNCHANGED lock

\* RaiseInside with the lock kept when the exception leaves the block
RaiseInside_KeepsLock(p, how) ==
    /\ Goto(p, AfterError(p), how)
    /\ UNCHANGED lock

\* an exception raised inside the `with` block: the transaction is left, then
\* the handler of the workflow loop runs
RaiseInside(p, how) ==
    /\ lock' = TransactionExit(Item(p))
    /\ Goto(p, AfterError(p), how)

\* the `with` block ends normally
Complete(p, how) ==
    /\ lock' = TransactionExit(Item(p))
    /\ Goto(p, AfterItem(p), how)

\* the polling jobs leave check_status and the dispatcher alone
OtherJobsRest == UNCHANGED <<statusVars, mailVars, lifeVars, schedVars, run2Vars, healthVars, regVars>>

\* the scheduler hands a job to a free worker
Start(p, j) ==
    /\ OtherJobsRest
    /\ pc[p] = "idle"
    /\ WorkflowPos(j, 1) # IdlePos
    /\ job' = [job EXCEPT ![p] = j]
    /\ pos' = [pos EXCEPT ![p] = WorkflowPos(j, 1)]
    /\ pc' = [pc EXCEPT ![p] = "enter"]
    /\ last' = [last EXCEPT ![p] = "-"]
    /\ UNCHANGED <<history, lock, notifications, builds, last_build, acting>>

(***************************************************************************)
(* check_last_build                                                        *)
(***************************************************************************)
\* with i.cache.transaction(str(i)):
CLB_Enter(p) ==
    /\ OtherJobsRest
    /\ job[p] = CLB
    /\ pc[p] = "enter"
    /\ IF TransactionFree(Item(p))
       THEN /\ lock' = TransactionEnter(Item(p), p)
            /\ pc' = [pc EXCEPT ![p] = "fetch"]
            /\ last' = [last EXCEPT ![p] = "-"]
            /\ UNCHANGED <<job, pos, builds, last_build>>
       ELSE RaiseOutside(p, "skipped")
    /\ UNCHANGED <<history, notifications, acting>>

\* CLB_Fetch with the `with` block ending right after the fetch of the builds
CLB_Fetch_ExitsEarly(p) ==
    /\ OtherJobsRest
    /\ job[p] = CLB
    /\ pc[p] = "fetch"
    /\ \/ /\ builds' = [builds EXCEPT ![p] = get_test_builds(Item(p), BuildsLimit)]
          /\ pc' = [pc EXCEPT ![p] = "detect"]
          /\ lock' = TransactionExit(Item(p))
          /\ UNCHANGED <<job, pos, last_build, last>>
       \/ RaiseInside(p, "error")
    /\ UNCHANGED <<history, notifications, acting>>

\* builds = i.get_test_builds(limit=10); for b in builds: i.get_test_build(b.id)
CLB_Fetch(p) ==
    /\ OtherJobsRest
    /\ job[p] = CLB
    /\ pc[p] = "fetch"
    /\ \/ /\ builds' = [builds EXCEPT ![p] = get_test_builds(Item(p), BuildsLimit)]
          /\ pc' = [pc EXCEPT ![p] = "detect"]
          /\ UNCHANGED <<lock, job, pos, last_build, last>>
       \/ RaiseInside(p, "error")
    /\ UNCHANGED <<history, notifications, acting>>

Event(failed) == IF failed THEN "FAILED" ELSE "RECOVERED"

\* the state-transition check: the event kind, "none", or the exception raised
Transition(b, lb) ==
    IF lb = NoBuild THEN "AttributeError"
    ELSE LET failed == lb.status = "failed"
         IN IF Len(b) = 1 /\ failed THEN Event(failed)
            ELSE IF Len(b) < 1 THEN "IndexError"
            ELSE IF b[1].status \notin Decisive THEN "none"
            ELSE IF Len(b) < 2 THEN "IndexError"
            ELSE IF b[2].status \notin Decisive THEN "none"
            ELSE IF ~(Len(b) > 1) THEN "none"
            ELSE IF b[2].status # lb.status THEN Event(failed)
            ELSE "none"

\* str(build) names the build and its test instance
BuildStr(i, b) == <<i, b.id>>

\* notification_name = f"{last_build} {'FAILED' if failed else 'RECOVERED'}"
NotificationName(i, lb) == <<BuildStr(i, lb), Event(lb.status = "failed")>>

\* WorkflowStatusNotification(event, notification_name, {'build': ...}, users)
WorkflowStatusNotification(i, lb) ==
    [name |-> NotificationName(i, lb),
     event |-> IF lb.status = "failed" THEN "BUILD_FAILED" ELSE "BUILD_RECOVERED",
     created |-> now]

\* Notification.find_by_name(name)
find_by_name(name) == {n \in BagToSet(notifications) : n.name = name}

\* CLB_Detect without the lookup of an existing notification of that name
CLB_Detect_NoLookup(p) ==
    /\ OtherJobsRest
    /\ job[p] = CLB
    /\ pc[p] = "detect"
    /\ \/ RaiseInside(p, "error")
       \/ LET lb == last_test_build(Item(p))
              t == Transition(builds[p], lb)
          IN IF t \in {"AttributeError", "IndexError"}
             THEN RaiseInside(p, "error")
             ELSE IF t = "none"
             THEN Complete(p, "-")
             ELSE /\ last_build' = [last_build EXCEPT ![p] = lb]
                  /\ pc' = [pc EXCEPT ![p] = "save"]
                  /\ UNCHANGED <<lock, job, pos, builds, last>>
    /\ UNCHANGED <<history, notifications, acting>>

\* last_build = i.last_test_build, the state-transition check and the lookup by name
CLB_Detect(p) ==
    /\ OtherJobsRest
    /\ job[p] = CLB
    /\ pc[p] = "detect"
    /\ \/ RaiseInside(p, "error")
       \/ LET lb == last_test_build(Item(p))
              t == Transition(builds[p], lb)
          IN IF t \in {"AttributeError", "IndexError"}
             THEN RaiseInside(p, "error")
             ELSE IF t = "none" \/ find_by_name(NotificationName(Item(p), lb)) # {}
             THEN Complete(p, "-")
             ELSE /\ last_build' = [last_build EXCEPT ![p] = lb]
                  /\ pc' = [pc EXCEPT ![p] = "save"]
                  /\ UNCHANGED <<lock, job, pos, builds, last>>
    /\ UNCHANGED <<history, notifications, acting>>

\* users = ...get_subscribers(); n = WorkflowStatusNotification(...); n.save()
CLB_Save(p) ==
    /\ OtherJobsRest
    /\ job[p] = CLB
    /\ pc[p] = "save"
    /\ \/ /\ notifications' =
                notifications (+) SetToBag({WorkflowStatusNotification(Item(p), last_build[p])})
          /\ Complete(p, "-")
       \/ /\ RaiseInside(p, "error")
          /\ UNCHANGED notifications
    /\ UNCHANGED <<history, acting>>

(***************************************************************************)
(* check_workflows                                                         *)
(***************************************************************************)
\* with v.cache.transaction(str(v)):
CW_Enter(p) ==
    /\ OtherJobsRest
    /\ job[p] = CW
    /\ pc[p] = "enter"
    /\ IF TransactionFree(Item(p))
       THEN /\ lock' = TransactionEnter(Item(p), p)
            /\ pc' = [pc EXCEPT ![p] = "refresh"]
            /\ last' = [last EXCEPT ![p] = "-"]
            /\ UNCHANGED <<job, pos, builds, last_build>>
       ELSE RaiseOutside(p, "skipped")
    /\ UNCHANGED <<history, notifications, acting>>

\* v.submitter
Submitter(v) == IF v = "v2" THEN "u1" ELSE IF v = "v3" THEN "u2" ELSE None

\* login_user(u): the user becomes the acting user of the request context
LoginUser(p, u) == [acting EXCEPT ![p] = u]

\* logout_user(), and the end of the request context: no user is acting
LogoutUser(p) == [acting EXCEPT ![p] = None]

\* u = v.submitter; with current_app.test_request_context(): try: if u is not
\* None: login_user(u); workflows_rocrate_download(w.uuid, v.version): an
\* exception of login_user or of the download is caught inside the block
CW_Refresh(p) ==
    /\ OtherJobsRest
    /\ job[p] = CW
    /\ pc[p] = "refresh"
    /\ LET u == Submitter(Item(p))
       IN \/ acting' = (IF u # None THEN LoginUser(p, u) ELSE acting)
          \/ u # None /\ UNCHANGED acting
    /\ pc' = [pc EXCEPT ![p] = "logout"]
    /\ UNCHANGED <<history, lock, notifications, job, pos, builds, last_build, last>>

\* CW_Logout with the acting user left in place
CW_Logout_KeepsUser(p) ==
    /\ OtherJobsRest
    /\ job[p] = CW
    /\ pc[p] = "logout"
    /\ Complete(p, "-")
    /\ UNCHANGED <<history, notifications, acting>>

\* finally: try: logout_user() except Exception: ...; the request context and
\* the transaction end
CW_Logout(p) ==
    /\ OtherJobsRest
    /\ job[p] = CW
    /\ pc[p] = "logout"
    /\ acting' = LogoutUser(p)
    /\ Complete(p, "-")
    /\ UNCHANGED <<history, notifications>>

(***************************************************************************)
(* The environment                                                         *)
(***************************************************************************)
\* the CI service publishes a new build of test instance i
NewBuild(i, st) ==
    /\ OtherJobsRest
    /\ SumLen(history, AllInstances) < MaxBuilds
    /\ history' = [history EXCEPT ![i] = Append(@, st)]
    /\ UNCHANGED <<lock, notifications, job, pc, pos, builds, last_build, last, acting>>

\* a worker dies in the middle of a job; the leases it holds end with it
Crash(p) ==
    /\ OtherJobsRest
    /\ pc[p] # "idle"
    /\ lock' = [key \in Keys |-> IF lock[key] = p THEN None ELSE lock[key]]
    /\ job' = [job EXCEPT ![p] = None]
    /\ pc' = [pc EXCEPT ![p] = "idle"]
    /\ pos' = [pos EXCEPT ![p] = IdlePos]
    /\ builds' = [builds EXCEPT ![p] = NoBuilds]
    /\ last_build' = [last_build EXCEPT ![p] = NoBuild]
    /\ last' = [last EXCEPT ![p] = "-"]
    /\ acting' = [acting EXCEPT ![p] = None]
    /\ UNCHANGED <<history, notifications>>

\* no job is running and the Notification table is empty
WorkersIdle ==
    /\ lock = [key \in Keys |-> None]
    /\ notifications = EmptyBag
    /\ job = [p \in Workers |-> None]
    /\ pc = [p \in Workers |-> "idle"]
    /\ pos = [p \in Workers |-> IdlePos]
    /\ builds = [p \in Workers |-> NoBuilds]
    /\ last_build = [p \in Workers |-> NoBuild]
    /\ last = [p \in Workers |-> "-"]
    /\ acting = [p \in Workers |-> None]

PollInit ==
    /\ history = [i \in AllInstances |-> <<>>]
    /\ WorkersIdle

StatusRest ==
    /\ cs_suites = <<>>
    /\ cs_pc = "rest"
    /\ cs_pos = [s |-> 0, i |-> 0]
    /\ cs_status = None
    /\ cs_builds = <<>>
    /\ cs_issues = <<>>

MailRest ==
    /\ email = <<>>
    /\ enabled = <<>>
    /\ emailed = <<>>
    /\ m_pc = "rest"
    /\ m_todo = <<>>
    /\ m_recipients = <<>>
    /\ m_calls = <<>>
    /\ m_count = 0
    /\ m_sent = Unset

LifeRest ==
    /\ now = 0
    /\ purged = {}
    /\ e_pc = "rest"
    /\ e_todo = <<>>
    /\ e_users = <<>>

\* the value None where a message is expected
NoMsg == [job |-> None, sent |-> 0, started |-> 0]

\* the task queue is empty and no worker executes a message
SchedRest ==
    /\ clock = 0
    /\ queue = <<>>
    /\ running = [p \in Workers |-> NoMsg]
    /\ ended = [p \in Workers |-> "-"]

\* no second invocation of the dispatcher
Run2Rest ==
    /\ m2_pc = "rest"
    /\ m2_todo = <<>>
    /\ m2_recipients = <<>>
    /\ m2_count = 0
    /\ m2_sent = Unset

\* the value of `health` before check_health has run
NoHealth == [healthy |-> None, issues |-> <<>>]

\* check_health is not called
HealthRest ==
    /\ h_suites = <<>>
    /\ h_pc = "rest"
    /\ health = NoHealth

\* the registry is not touched
RegRest ==
    /\ live = {}
    /\ versions = <<>>

Init == PollInit /\ StatusRest /\ MailRest /\ LifeRest /\ SchedRest /\ Run2Rest /\ HealthRest /\ RegRest

Next ==
    \/ \E p \in Workers, j \in {CLB, CW} : Start(p, j)
    \/ \E p \in Workers : CLB_Enter(p)
    \/ \E p \in Workers : CLB_Fetch(p)
    \/ \E p \in Workers : CLB_Detect(p)
    \/ \E p \in Workers : CLB_Save(p)
    \/ \E p \in Workers : CW_Enter(p)
    \/ \E p \in Workers : CW_Refresh(p)
    \/ \E p \in Workers : CW_Logout(p)
    \/ \E i \in AllInstances, st \in Statuses : NewBuild(i, st)
    \/ \E p \in Workers : Crash(p)

Spec == Init /\ [][Next]_vars

(***************************************************************************)
(* Status.check_status                                                     *)
(***************************************************************************)
\* class AggregateTestStatus
ALL_PASSING == "all_passing"
SOME_PASSING == "some_passing"
ALL_FAILING == "all_failing"
NOT_AVAILABLE == "not_available"

\* what test_instance.last_test_build answers: a build (passed or failed), None
\* (no build), or a TestingServiceException
Answers == {"passed", "failed", "none", "error"}

SuiteCounts == {0, 1, 2}

\* the sequences over S of length at most n
RECURSIVE SeqsUpTo(_, _)
SeqsUpTo(S, n) ==
    IF n = 0 THEN {<<>>}
    ELSE LET shorter == SeqsUpTo(S, n - 1)
         IN shorter \cup {Append(q, x) : q \in {r \in shorter : Len(r) = n - 1}, x \in S}

\* the arguments of check_status: lists of suites, a suite being the list of the
\* answers of its test instances
SuiteLists ==
    UNION {[1..n -> SeqsUpTo(Answers, MaxInstances)] : n \in SuiteCounts}

\* latest_build.is_successful()
is_successful(b) == b.status = "passed"

\* _update_status with a failing build after ALL_PASSING leaving the status as it is
update_status_sticky(current_status, build_passing) ==
    IF current_status = NOT_AVAILABLE
    THEN (IF build_passing THEN ALL_PASSING ELSE ALL_FAILING)
    ELSE IF current_status = ALL_FAILING
    THEN (IF build_passing THEN SOME_PASSING ELSE current_status)
    ELSE current_status

\* _update_status following the last build after ALL_FAILING
update_status_last(current_status, build_passing) ==
    IF current_status = NOT_AVAILABLE
    THEN (IF build_passing THEN ALL_PASSING ELSE ALL_FAILING)
    ELSE IF current_status = ALL_PASSING
    THEN (IF ~build_passing THEN SOME_PASSING ELSE current_status)
    ELSE IF current_status = ALL_FAILING
    THEN (IF build_passing THEN ALL_PASSING ELSE current_status)
    ELSE current_status

\* _update_status with a failing build after ALL_PASSING giving ALL_FAILING
update_status_flips(current_status, build_passing) ==
    IF current_status = NOT_AVAILABLE
    THEN (IF build_passing THEN ALL_PASSING ELSE ALL_FAILING)
    ELSE IF current_status = ALL_PASSING
    THEN (IF ~build_passing THEN ALL_FAILING ELSE current_status)
    ELSE IF current_status = ALL_FAILING
    THEN (IF build_passing THEN SOME_PASSING ELSE current_status)
    ELSE current_status

\* Status._update_status
update_status(current_status, build_passing) ==
    IF current_status = NOT_AVAILABLE
    THEN (IF build_passing THEN ALL_PASSING
          ELSE IF ~build_passing THEN ALL_FAILING
          ELSE current_status)
    ELSE IF current_status = ALL_PASSING
    THEN (IF ~build_passing THEN SOME_PASSING ELSE current_status)
    ELSE IF current_status = ALL_FAILING
    THEN (IF build_passing THEN SOME_PASSING ELSE current_status)
    ELSE current_status

\* test_instance.testing_service.url
ServiceUrl(s, i) == <<"url", s, i>>

\* the polling jobs and the dispatcher are at rest while check_status runs
OtherThanStatusRest == UNCHANGED <<pollVars, mailVars, lifeVars, schedVars, run2Vars, healthVars, regVars>>

\* where the loops of check_status go after test instance i of suite s
CS_AfterInstance(s, i) ==
    IF i < Len(cs_suites[s]) THEN [pc |-> "instance", pos |-> [s |-> s, i |-> i + 1]]
    ELSE IF s < Len(cs_suites) THEN [pc |-> "suite", pos |-> [s |-> s + 1, i |-> 0]]
    ELSE [pc |-> "return", pos |-> [s |-> 0, i |-> 0]]

\* CS_Begin with no issue for an empty list of suites
CS_Begin_NoIssue ==
    /\ OtherThanStatusRest
    /\ cs_pc = "call"
    /\ cs_status' = NOT_AVAILABLE
    /\ cs_builds' = <<>>
    /\ cs_issues' = <<>>
    /\ cs_pc' = IF Len(cs_suites) = 0 THEN "return" ELSE "suite"
    /\ cs_pos' = IF Len(cs_suites) = 0 THEN [s |-> 0, i |-> 0] ELSE [s |-> 1, i |-> 0]
    /\ UNCHANGED cs_suites

\* status = NOT_AVAILABLE; latest_builds = []; availability_issues = [];
\* if len(suites) == 0: append "No test suite configured for this workflow"
CS_Begin ==
    /\ OtherThanStatusRest
    /\ cs_pc = "call"
    /\ cs_status' = NOT_AVAILABLE
    /\ cs_builds' = <<>>
    /\ cs_issues' = IF Len(cs_suites) = 0 THEN <<[kind |-> "no_suite"]>> ELSE <<>>
    /\ cs_pc' = IF Len(cs_suites) = 0 THEN "return" ELSE "suite"
    /\ cs_pos' = IF Len(cs_suites) = 0 THEN [s |-> 0, i |-> 0] ELSE [s |-> 1, i |-> 0]
    /\ UNCHANGED cs_suites

\* CS_Suite with the status starting again from NOT_AVAILABLE at every suite
CS_Suite_ResetsStatus ==
    /\ OtherThanStatusRest
    /\ cs_pc = "suite"
    /\ LET s == cs_pos.s
           nxt == CS_AfterInstance(s, 0)
       IN /\ cs_issues' = IF Len(cs_suites[s]) = 0
                          THEN Append(cs_issues, [kind |-> "no_instance", suite |-> s])
                          ELSE cs_issues
          /\ cs_pc' = nxt.pc
          /\ cs_pos' = nxt.pos
    /\ cs_status' = NOT_AVAILABLE
    /\ UNCHANGED <<cs_suites, cs_builds>>

\* for suite in suites: if len(suite.test_instances) == 0: append
\* "No test instances configured for suite ..."
CS_Suite ==
    /\ OtherThanStatusRest
    /\ cs_pc = "suite"
    /\ LET s == cs_pos.s
           nxt == CS_AfterInstance(s, 0)
       IN /\ cs_issues' = IF Len(cs_suites[s]) = 0
                          THEN Append(cs_issues, [kind |-> "no_instance", suite |-> s])
                          ELSE cs_issues
          /\ cs_pc' = nxt.pc
          /\ cs_pos' = nxt.pos
    /\ UNCHANGED <<cs_suites, cs_status, cs_builds>>

\* CS_Instance with the TestingServiceException leaving check_status
CS_Instance_Escapes ==
    /\ OtherThanStatusRest
    /\ cs_pc = "instance"
    /\ LET s == cs_pos.s
           i == cs_pos.i
           answer == cs_suites[s][i]
           nxt == CS_AfterInstance(s, i)
       IN IF answer = "error"
          THEN /\ cs_pc' = "raised"
               /\ UNCHANGED <<cs_pos, cs_issues, cs_builds, cs_status>>
          ELSE /\ cs_pc' = nxt.pc
               /\ cs_pos' = nxt.pos
               /\ IF answer = "none"
                  THEN /\ cs_issues' = Append(cs_issues,
                              [kind |-> "no_build", service |-> ServiceUrl(s, i),
                               test_instance |-> <<s, i>>])
                       /\ UNCHANGED <<cs_builds, cs_status>>
                  ELSE LET latest_build == [instance |-> <<s, i>>, status |-> answer]
                       IN /\ cs_builds' = Append(cs_builds, latest_build)
                          /\ cs_status' = update_status(cs_status, is_successful(latest_build))
                          /\ UNCHANGED cs_issues
    /\ UNCHANGED cs_suites

\* CS_Instance with no issue for a test instance without build
CS_Instance_SkipsMissing ==
    /\ OtherThanStatusRest
    /\ cs_pc = "instance"
    /\ LET s == cs_pos.s
           i == cs_pos.i
           answer == cs_suites[s][i]
           nxt == CS_AfterInstance(s, i)
       IN /\ cs_pc' = nxt.pc
          /\ cs_pos' = nxt.pos
          /\ IF answer = "error"
             THEN /\ cs_issues' = Append(cs_issues,
                         [kind |-> "service_error", service |-> ServiceUrl(s, i),
                          resource |-> <<s, i>>, issue |-> <<"str(e)", s, i>>])
                  /\ UNCHANGED <<cs_builds, cs_status>>
             ELSE IF answer = "none"
             THEN UNCHANGED <<cs_issues, cs_builds, cs_status>>
             ELSE LET latest_build == [instance |-> <<s, i>>, status |-> answer]
                  IN /\ cs_builds' = Append(cs_builds, latest_build)
                     /\ cs_status' = update_status(cs_status, is_successful(latest_build))
                     /\ UNCHANGED cs_issues
    /\ UNCHANGED cs_suites

\* for test_instance in suite.test_instances: try: latest_build = ...last_test_build ...
\* except TestingServiceException: append the issue with the service url and str(e)
CS_Instance ==
    /\ OtherThanStatusRest
    /\ cs_pc = "instance"
    /\ LET s == cs_pos.s
           i == cs_pos.i
           answer == cs_suites[s][i]
           nxt == CS_AfterInstance(s, i)
       IN /\ cs_pc' = nxt.pc
          /\ cs_pos' = nxt.pos
          /\ IF answer = "error"
             THEN /\ cs_issues' = Append(cs_issues,
                         [kind |-> "service_error", service |-> ServiceUrl(s, i),
                          resource |-> <<s, i>>, issue |-> <<"str(e)", s, i>>])
                  /\ UNCHANGED <<cs_builds, cs_status>>
             ELSE IF answer = "none"
             THEN /\ cs_issues' = Append(cs_issues,
                         [kind |-> "no_build", service |-> ServiceUrl(s, i),
                          test_instance |-> <<s, i>>])
                  /\ UNCHANGED <<cs_builds, cs_status>>
             ELSE LET latest_build == [instance |-> <<s, i>>, status |-> answer]
                  IN /\ cs_builds' = Append(cs_builds, latest_build)
                     /\ cs_status' = update_status(cs_status, is_successful(latest_build))
                     /\ UNCHANGED cs_issues
    /\ UNCHANGED cs_suites

\* return status, latest_builds, availability_issues
CS_Return ==
    /\ OtherThanStatusRest
    /\ cs_pc = "return"
    /\ cs_pc' = "returned"
    /\ UNCHANGED <<cs_suites, cs_pos, cs_status, cs_builds, cs_issues>>

\* check_status is called with any list of suites
StatusInit ==
    /\ cs_suites \in SuiteLists
    /\ cs_pc = "call"
    /\ cs_pos = [s |-> 0, i |-> 0]
    /\ cs_status = None
    /\ cs_builds = <<>>
    /\ cs_issues = <<>>

StatusNext == CS_Begin \/ CS_Suite \/ CS_Instance \/ CS_Return

InitStatus ==
    PollInit /\ StatusInit /\ MailRest /\ LifeRest /\ SchedRest /\ Run2Rest /\ HealthRest /\ RegRest

SpecStatus == InitStatus /\ [][StatusNext]_vars

(***************************************************************************)
(* send_email_notifications                                                *)
(***************************************************************************)
Users == {"u1", "u2"}

Addresses == {"a@x", "b@x"}

\* the notifications of the table, in the order of Notification.not_emailed()
Notifs == <<"n1", "n2">>

\* n.users: the recipients of a notification, fixed when it was created
NotifUsers(n) == IF n = "n1" THEN <<"u1", "u2">> ELSE <<"u2">>

\* Notification.not_emailed(): the notifications with a recipient whose emailed is unset
not_emailed ==
    SelectSeq(Notifs, LAMBDA n : \E u \in Range(NotifUsers(n)) : emailed[n][u] = Unset)

\* u.emailed is None and u.user.email_notifications_enabled and u.user.email
Eligible(n, u) == emailed[n][u] = Unset /\ enabled[u] /\ email[u] # None

\* recipients = [u.user.email for u in n.users if ...]
Recipients(n) ==
    LET us == SelectSeq(NotifUsers(n), LAMBDA u : Eligible(n, u))
    IN [x \in DOMAIN us |-> email[us[x]]]

\* the polling jobs and check_status are at rest while the dispatcher runs
OtherThanMailRest == UNCHANGED <<pollVars, statusVars, lifeVars, schedVars, run2Vars, healthVars, regVars>>

\* notifications = [n for n in Notification.not_emailed() ...]; count = 0
M_Start ==
    /\ OtherThanMailRest
    /\ m_pc = "rest"
    /\ Len(m_calls) + Len(not_emailed) <= MaxCalls
    /\ m_todo' = not_emailed
    /\ m_count' = 0
    /\ m_pc' = "send"
    /\ UNCHANGED <<email, enabled, emailed, m_recipients, m_calls, m_sent>>

\* one call send_notification(n, recipients): the value it returns (Unset for
\* None), or that it raised
TransportCall(n, r, sent, raised) ==
    [n |-> n, recipients |-> r, sent |-> sent, raised |-> raised]

\* recipients = [...]; sent = send_notification(n, recipients=recipients): the
\* transport delivers, reports no delivery, or raises and the job ends there
M_Send ==
    /\ OtherThanMailRest
    /\ m_pc = "send"
    /\ m_todo # <<>>
    /\ LET n == Head(m_todo)
           r == Recipients(n)
       IN /\ m_recipients' = r
          /\ \/ /\ m_calls' = Append(m_calls, TransportCall(n, r, Len(m_calls) + 1, FALSE))
                /\ m_sent' = Len(m_calls) + 1
                /\ m_pc' = "record"
                /\ UNCHANGED m_todo
             \/ /\ m_calls' = Append(m_calls, TransportCall(n, r, Unset, FALSE))
                /\ m_sent' = Unset
                /\ m_pc' = "send"
                /\ m_todo' = Tail(m_todo)
             \/ /\ m_calls' = Append(m_calls, TransportCall(n, r, Unset, TRUE))
                /\ m_sent' = Unset
                /\ m_pc' = "rest"
                /\ m_todo' = <<>>
    /\ UNCHANGED <<email, enabled, emailed, m_count>>

\* if sent: for u in n.users: if u.user.email in recipients: u.emailed = sent;
\* n.save(); count += 1
M_Record ==
    /\ OtherThanMailRest
    /\ m_pc = "record"
    /\ LET n == Head(m_todo)
           sent == m_sent
       IN emailed' = [emailed EXCEPT ![n] =
                         [u \in DOMAIN emailed[n] |->
                             IF email[u] \in Range(m_recipients) THEN sent ELSE emailed[n][u]]]
    /\ m_count' = m_count + 1
    /\ m_todo' = Tail(m_todo)
    /\ m_pc' = "send"
    /\ UNCHANGED <<email, enabled, m_recipients, m_calls, m_sent>>

\* return count
M_Return ==
    /\ OtherThanMailRest
    /\ m_pc = "send"
    /\ m_todo = <<>>
    /\ m_pc' = "rest"
    /\ UNCHANGED <<email, enabled, emailed, m_todo, m_recipients, m_calls, m_count, m_sent>>

\* the users have any addresses and settings; no notification is emailed yet
MailInit ==
    /\ email \in [Users -> Addresses \cup {None}]
    /\ enabled \in [Users -> BOOLEAN]
    /\ emailed = [n \in Range(Notifs) |-> [u \in Range(NotifUsers(n)) |-> Unset]]
    /\ m_pc = "rest"
    /\ m_todo = <<>>
    /\ m_recipients = <<>>
    /\ m_calls = <<>>
    /\ m_count = 0
    /\ m_sent = Unset

MailNext == M_Start \/ M_Send \/ M_Record \/ M_Return

InitMail ==
    PollInit /\ StatusRest /\ MailInit /\ LifeRest /\ SchedRest /\ Run2Rest /\ HealthRest /\ RegRest

SpecMail == InitMail /\ [][MailNext]_vars

\* a user sets or removes the address of the profile between or during runs
SetEmail(u, a) ==
    /\ OtherThanMailRest
    /\ email[u] # a
    /\ email' = [email EXCEPT ![u] = a]
    /\ UNCHANGED <<enabled, emailed, m_pc, m_todo, m_recipients, m_calls, m_count, m_sent>>

MailEditsNext ==
    \/ M_Start
    \/ M_Send
    \/ M_Record
    \/ M_Return
    \/ \E u \in Users, a \in Addresses \cup {None} : SetEmail(u, a)

\* the dispatcher with users who edit their profiles
SpecMailEdits == InitMail /\ [][MailEditsNext]_vars

\* a second invocation leaves the locals of the first one alone
OtherThanRun2Rest ==
    UNCHANGED <<pollVars, statusVars, lifeVars, schedVars, healthVars, regVars,
                email, enabled, m_pc, m_todo, m_recipients, m_count, m_sent>>

\* the second invocation: notifications = [n for n in Notification.not_emailed() ...]
M2_Start ==
    /\ OtherThanRun2Rest
    /\ m2_pc = "rest"
    /\ Len(m_calls) + Len(not_emailed) <= MaxCalls
    /\ m2_todo' = not_emailed
    /\ m2_count' = 0
    /\ m2_pc' = "send"
    /\ UNCHANGED <<emailed, m2_recipients, m2_sent, m_calls>>

\* the second invocation: recipients = [...]; sent = send_notification(n, recipients)
M2_Send ==
    /\ OtherThanRun2Rest
    /\ m2_pc = "send"
    /\ m2_todo # <<>>
    /\ LET n == Head(m2_todo)
           r == Recipients(n)
       IN /\ m2_recipients' = r
          /\ \/ /\ m_calls' = Append(m_calls, TransportCall(n, r, Len(m_calls) + 1, FALSE))
                /\ m2_sent' = Len(m_calls) + 1
                /\ m2_pc' = "record"
                /\ UNCHANGED m2_todo
             \/ /\ m_calls' = Append(m_calls, TransportCall(n, r, Unset, FALSE))
                /\ m2_sent' = Unset
                /\ m2_pc' = "send"
                /\ m2_todo' = Tail(m2_todo)
             \/ /\ m_calls' = Append(m_calls, TransportCall(n, r, Unset, TRUE))
                /\ m2_sent' = Unset
                /\ m2_pc' = "rest"
                /\ m2_todo' = <<>>
    /\ UNCHANGED <<emailed, m2_count>>

\* the second invocation: if sent: for u in n.users: if u.user.email in
\* recipients: u.emailed = sent; n.save(); count += 1
M2_Record ==
    /\ OtherThanRun2Rest
    /\ m2_pc = "record"
    /\ LET n == Head(m2_todo)
       IN emailed' = [emailed EXCEPT ![n] =
                         [u \in DOMAIN emailed[n] |->
                             IF email[u] \in Range(m2_recipients) THEN m2_sent ELSE emailed[n][u]]]
    /\ m2_count' = m2_count + 1
    /\ m2_todo' = Tail(m2_todo)
    /\ m2_pc' = "send"
    /\ UNCHANGED <<m2_recipients, m2_sent, m_calls>>

\* the second invocation: return count
M2_Return ==
    /\ OtherThanRun2Rest
    /\ m2_pc = "send"
    /\ m2_todo = <<>>
    /\ m2_pc' = "rest"
    /\ UNCHANGED <<emailed, m2_todo, m2_recipients, m2_count, m2_sent, m_calls>>

MailOverlapNext ==
    \/ M_Start
    \/ M_Send
    \/ M_Record
    \/ M_Return
    \/ M2_Start
    \/ M2_Send
    \/ M2_Record
    \/ M2_Return

\* two invocations of the dispatcher taken by two workers
SpecMailOverlap == InitMail /\ [][MailOverlapNext]_vars

(***************************************************************************)
(* cleanup_notifications and check_email_configuration, with               *)
(* check_last_build over build histories that do not change                *)
(***************************************************************************)
\* the jobs of this part leave check_status and the dispatcher alone
OtherThanLifeRest == UNCHANGED <<statusVars, mailVars, schedVars, run2Vars, healthVars, regVars>>

\* a day passes
Tick ==
    /\ OtherThanLifeRest
    /\ now < MaxTime
    /\ now' = now + 1
    /\ UNCHANGED <<pollVars, purged, e_pc, e_todo, e_users>>

\* Notification.older_than(date)
older_than(date) == {n \in BagToSet(notifications) : n.created < date}

\* cleanup_notifications: the notifications older than the cutoff are deleted;
\* one whose delete() raises is logged and stays
Cleanup ==
    /\ OtherThanLifeRest
    /\ LET current_time == now
           one_week_ago == current_time - RetentionDays
           old == older_than(one_week_ago)
       IN \E deleted \in SUBSET old :
             /\ Cardinality(purged \cup deleted) <= MaxPurged
             /\ notifications' =
                   [n \in BagToSet(notifications) \ deleted |-> notifications[n]]
             /\ purged' = purged \cup deleted
    /\ UNCHANGED <<history, lock, job, pc, pos, builds, last_build, last, acting>>
    /\ UNCHANGED <<now, e_pc, e_todo, e_users>>

\* User.all()
AllUsers == <<"u1", "u2">>

\* UnconfiguredEmailNotification.find_by_user(u)
find_by_user(u) ==
    {n \in BagToSet(notifications) : n.event = "UNCONFIGURED_EMAIL" /\ u \in n.users}

\* UnconfiguredEmailNotification("Unconfigured email", users=users); a name is
\* a pair here, as the names check_last_build builds
UnconfiguredEmailNotification(users) ==
    [name |-> <<<<"-", 0>>, "Unconfigured email">>, event |-> "UNCONFIGURED_EMAIL",
     users |-> Range(users), created |-> now]

\* count = 0; users = []
E_Start ==
    /\ OtherThanLifeRest
    /\ e_pc \in {"rest", "escaped"}
    /\ e_pc' = "check"
    /\ e_todo' = AllUsers
    /\ e_users' = <<>>
    /\ UNCHANGED <<pollVars, now, purged>>

\* for u in User.all(): if not u.email and
\* len(UnconfiguredEmailNotification.find_by_user(u)) == 0: users.append(u)
E_Check ==
    /\ OtherThanLifeRest
    /\ e_pc = "check"
    /\ e_todo # <<>>
    /\ LET u == Head(e_todo)
       IN e_users' = IF email[u] = None /\ find_by_user(u) = {}
                     THEN Append(e_users, u)
                     ELSE e_users
    /\ e_todo' = Tail(e_todo)
    /\ UNCHANGED <<pollVars, now, purged, e_pc>>

\* if len(users) > 0: n = UnconfiguredEmailNotification(...); n.save()
E_Save ==
    /\ OtherThanLifeRest
    /\ e_pc = "check"
    /\ e_todo = <<>>
    /\ notifications' =
          IF Len(e_users) > 0
          THEN notifications (+) SetToBag({UnconfiguredEmailNotification(e_users)})
          ELSE notifications
    /\ e_pc' = "rest"
    /\ UNCHANGED <<history, lock, job, pc, pos, builds, last_build, last, acting>>
    /\ UNCHANGED <<now, purged, e_todo, e_users>>

\* User.all(), find_by_user or the constructor of the notification raises: the
\* handler logs `n`, a local that is not bound yet, and the UnboundLocalError
\* of that line leaves the body
E_Raise ==
    /\ OtherThanLifeRest
    /\ e_pc = "check"
    /\ e_pc' = "escaped"
    /\ e_todo' = <<>>
    /\ e_users' = <<>>
    /\ UNCHANGED <<pollVars, now, purged>>

\* n.save() raises: `n` is bound, the handler logs it and the job returns
E_SaveRaise ==
    /\ OtherThanLifeRest
    /\ e_pc = "check"
    /\ e_todo = <<>>
    /\ Len(e_users) > 0
    /\ e_pc' = "rest"
    /\ UNCHANGED <<pollVars, now, purged, e_todo, e_users>>

\* the build histories of the test instances, which stay as they are
Histories == {<<>>, <<"failed", "passed">>}

\* the worker that runs check_last_build
Poller == "k1"

\* some users have no address; no job is running and no notification exists
InitLife ==
    /\ history \in [AllInstances -> Histories]
    /\ WorkersIdle
    /\ StatusRest
    /\ email \in [Users -> {"a@x", None}]
    /\ enabled = [u \in Users |-> TRUE]
    /\ emailed = <<>>
    /\ m_pc = "rest"
    /\ m_todo = <<>>
    /\ m_recipients = <<>>
    /\ m_calls = <<>>
    /\ m_count = 0
    /\ m_sent = Unset
    /\ LifeRest
    /\ SchedRest
    /\ Run2Rest
    /\ HealthRest
    /\ RegRest

LifeNext ==
    \/ Start(Poller, CLB)
    \/ CLB_Enter(Poller)
    \/ CLB_Fetch(Poller)
    \/ CLB_Detect(Poller)
    \/ CLB_Save(Poller)
    \/ Tick
    \/ Cleanup
    \/ E_Start
    \/ E_Check
    \/ E_Save
    \/ E_Raise
    \/ E_SaveRaise

SpecLife == InitLife /\ [][LifeNext]_vars

(***************************************************************************)
(* The scheduled jobs: @schedule(trigger) and @dramatiq.actor(max_age=...) *)
(***************************************************************************)
\* the functions decorated with @schedule and @dramatiq.actor
Jobs ==
    {"heartbeat", CW, CLB, "send_email_notifications", "cleanup_notifications",
     "check_email_configuration"}

\* max_age with a longer expiration for check_last_build
max_age_longer(j) == IF j = CLB THEN 2 * TASK_EXPIRATION_TIME ELSE TASK_EXPIRATION_TIME

\* @dramatiq.actor(max_retries=..., max_age=TASK_EXPIRATION_TIME)
max_age(j) == TASK_EXPIRATION_TIME

\* the step of the clock
Quantum == TASK_EXPIRATION_TIME \div 2

\* the other jobs are at rest
OtherThanSchedRest == UNCHANGED <<pollVars, statusVars, mailVars, lifeVars, run2Vars, healthVars, regVars>>

\* time passes
Advance ==
    /\ OtherThanSchedRest
    /\ clock < MaxClock * Quantum
    /\ clock' = clock + Quantum
    /\ UNCHANGED <<queue, running, ended>>

\* scheduler.add_job(id=fn_name, func=actor.send, trigger=trigger): a tick of
\* the trigger of job j sends a message to the task queue, whatever became of
\* the messages of earlier ticks; the ticks of a job are at distinct times
Send(j) ==
    /\ OtherThanSchedRest
    /\ Len(queue) < MaxQueue
    /\ \A x \in DOMAIN queue : queue[x].job = j => queue[x].sent < clock
    /\ \A p \in Workers : running[p].job = j => running[p].sent < clock
    /\ queue' = Append(queue, [job |-> j, sent |-> clock])
    /\ UNCHANGED <<clock, running, ended>>

\* a free worker takes the oldest message: it discards a message older than
\* max_age, and otherwise starts the body of the job
Process(p) ==
    /\ OtherThanSchedRest
    /\ running[p] = NoMsg
    /\ queue # <<>>
    /\ LET m == Head(queue)
       IN IF clock - m.sent > max_age(m.job)
          THEN /\ ended' = [ended EXCEPT ![p] = "discarded"]
               /\ UNCHANGED running
          ELSE /\ running' = [running EXCEPT ![p] =
                                  [job |-> m.job, sent |-> m.sent, started |-> clock]]
               /\ ended' = [ended EXCEPT ![p] = "-"]
    /\ queue' = Tail(queue)
    /\ UNCHANGED clock

\* the body of the job returns
Finish(p) ==
    /\ OtherThanSchedRest
    /\ running[p] # NoMsg
    /\ running' = [running EXCEPT ![p] = NoMsg]
    /\ ended' = [ended EXCEPT ![p] = "done"]
    /\ UNCHANGED <<clock, queue>>

SchedNext ==
    \/ Advance
    \/ \E j \in Jobs : Send(j)
    \/ \E p \in Workers : Process(p)
    \/ \E p \in Workers : Finish(p)

SpecSched == Init /\ [][SchedNext]_vars

(***************************************************************************)
(* Properties of the polling jobs                                          *)
(***************************************************************************)
\* the worker is inside the `with ...transaction(key)` block of its resource
InBody(p) == pc[p] \in {"fetch", "detect", "save", "refresh", "logout"}

\* C1: for every resource key at most one worker is inside the transaction of
\* that key, and a worker that fetches builds, creates a notification or
\* refreshes an RO-Crate holds the lock of the resource it works on.
C1_MutualExclusion ==
    /\ \A p, q \in Workers :
          (InBody(p) /\ InBody(q) /\ Item(p) = Item(q)) => p = q
    /\ \A p \in Workers : InBody(p) => lock[Item(p)] = p

\* one worker is inside a transaction while the other was refused a lock
C1_Witness ==
    \E p, q \in Workers : p # q /\ InBody(p) /\ last[q] = "skipped"

ExpectedEvent(b) ==
    IF Len(b) = 1 THEN (IF b[1].status = "failed" THEN "FAILED" ELSE "none")
    ELSE IF /\ Len(b) >= 2
            /\ b[1].status \in Decisive
            /\ b[2].status \in Decisive
            /\ b[1].status # b[2].status
         THEN (IF b[1].status = "failed" THEN "FAILED" ELSE "RECOVERED")
         ELSE "none"

\* C3: on every list of recent builds, with the newest of them as last build,
\* the state-transition check gives the event of the rule (FAILED for a single
\* Failed build, FAILED or RECOVERED for a flip between two decisive builds)
\* and in every other case gives no event and raises nothing.
C3_TransitionRule ==
    \A p \in Workers :
        pc[p] = "detect" =>
            Transition(builds[p], IF builds[p] = <<>> THEN NoBuild ELSE builds[p][1])
                = ExpectedEvent(builds[p])

\* C4: every BUILD_RECOVERED notification is named after a Passed build whose
\* immediate predecessor is Failed.
C4_RecoveredAfterFailure ==
    \A n \in BagToSet(notifications) :
        n.event = "BUILD_RECOVERED" =>
            LET h == history[n.name[1][1]]
                id == n.name[1][2]
            IN /\ h[id] = "passed"
               /\ id > 1
               /\ h[id - 1] = "failed"

\* C9: a pass that finds the lock of its resource taken touches nothing and
\* goes on with the next resource of the run.
C9_SkipGoesOn ==
    [][\A p \in Workers :
          (pc[p] = "enter" /\ ~TransactionFree(Item(p)) /\ (CLB_Enter(p) \/ CW_Enter(p)))
              => /\ pos'[p] = AfterItem(p)
                 /\ UNCHANGED <<history, lock, notifications>>]_vars

\* C10: a lock is held only by a worker that is inside the transaction of that
\* key: after the body ended, normally or by an exception, and after the job
\* returned, the lock is free.
C10_LockReleased ==
    \A key \in Keys :
        lock[key] # None => (InBody(lock[key]) /\ Item(lock[key]) = key)

\* a job has returned after an exception inside a transaction, and every lock is free
C10_Witness ==
    \E p \in Workers :
        /\ pc[p] = "idle"
        /\ last[p] = "error"
        /\ \A key \in Keys : lock[key] = None

\* C11: an exception raised while one resource is processed does not keep the
\* run from processing the remaining resources: after the exception the loops
\* are at the next resource of the run, the next one of the same workflow when
\* there is one.
C11_ResourceIsolation ==
    [][\A p \in Workers :
          (InBody(p) /\ last'[p] = "error") => pos'[p] = AfterItem(p)]_vars

\* C20: outside the refresh of a version no user is logged in; the user acting
\* in a refresh is the submitter of the version being refreshed, never the one
\* of another version, and nobody when the version has no submitter.
C20_ImpersonationScoped ==
    \A p \in Workers :
        /\ pc[p] # "logout" => acting[p] = None
        /\ pc[p] = "logout" => acting[p] \in {None, Submitter(Item(p))}

\* a refresh of a version without submitter has run, after the refresh of a
\* version whose submitter was logged in
C20_Witness ==
    \E p \in Workers :
        /\ job[p] = CW
        /\ pc[p] = "logout"
        /\ pos[p].k > 1
        /\ Submitter(Item(p)) = None
        /\ Submitter(Items(CW, pos[p].w)[pos[p].k - 1]) # None

(***************************************************************************)
(* Properties of check_status                                              *)
(***************************************************************************)
\* the statuses of the builds that the test instances of `suites` answer, in loop order
Found(suites) == SelectSeq(Flatten(suites), LAMBDA a : a \in {"passed", "failed"})

\* the fold of _update_status over a sequence of build statuses
RECURSIVE FoldFrom(_, _)
FoldFrom(st, o) ==
    IF o = <<>> THEN st
    ELSE FoldFrom(update_status(st, Head(o) = "passed"), Tail(o))

\* the status the specification gives to a collection of found builds
Classify(o) ==
    IF o = <<>> THEN NOT_AVAILABLE
    ELSE IF \A x \in DOMAIN o : o[x] = "passed" THEN ALL_PASSING
    ELSE IF \A x \in DOMAIN o : o[x] # "passed" THEN ALL_FAILING
    ELSE SOME_PASSING

\* C5: the status check_status returns is the fold of _update_status over the
\* latest builds found: NOT_AVAILABLE when none was found, ALL_PASSING when all
\* are successful, ALL_FAILING when none is, SOME_PASSING otherwise.
C5_StatusFold ==
    cs_pc = "returned" =>
        LET found == Found(cs_suites)
        IN /\ [x \in DOMAIN cs_builds |-> cs_builds[x].status] = found
           /\ cs_status = FoldFrom(NOT_AVAILABLE, found)
           /\ cs_status = Classify(found)

\* check_status has returned SOME_PASSING
C5_Witness == cs_pc = "returned" /\ cs_status = SOME_PASSING

\* the orders in which the elements of S can be visited
RECURSIVE Orders(_)
Orders(S) ==
    IF S = {} THEN {<<>>}
    ELSE UNION {{<<x>> \o o : o \in Orders(S \ {x})} : x \in S}

\* C6: folding the found builds with _update_status in any order gives the
\* status check_status returned.
C6_OrderIndependent ==
    cs_pc = "returned" =>
        LET found == Found(cs_suites)
        IN \A o \in Orders(DOMAIN found) :
              FoldFrom(NOT_AVAILABLE, [x \in DOMAIN found |-> found[o[x]]]) = cs_status

\* check_status has returned after folding a failed build and then a passed one
C6_Witness ==
    /\ cs_pc = "returned"
    /\ Len(cs_builds) >= 3
    /\ cs_builds[1].status = "failed"
    /\ cs_builds[2].status = "passed"

\* the test instances of the argument whose testing service raises
ErrorInstances ==
    {si \in (1..Len(cs_suites)) \X (1..MaxInstances) :
        si[2] <= Len(cs_suites[si[1]]) /\ cs_suites[si[1]][si[2]] = "error"}

\* C7: a testing-service error never leaves check_status; the running status
\* is always the fold over the builds found so far, and at the return every
\* test instance that raised has exactly one issue, with the service url and
\* the error text, the issues of this kind are those only, and the status is
\* the fold over the builds of the other instances.
C7_FailureIsolation ==
    /\ cs_pc # "raised"
    /\ cs_pc \in {"suite", "instance", "return", "returned"} =>
          cs_status = FoldFrom(NOT_AVAILABLE, [x \in DOMAIN cs_builds |-> cs_builds[x].status])
    /\ cs_pc = "returned" =>
          /\ \A si \in ErrorInstances :
                Cardinality({x \in DOMAIN cs_issues :
                                cs_issues[x] = [kind |-> "service_error",
                                                service |-> ServiceUrl(si[1], si[2]),
                                                resource |-> si,
                                                issue |-> <<"str(e)", si[1], si[2]>>]}) = 1
          /\ Cardinality({x \in DOMAIN cs_issues : cs_issues[x].kind = "service_error"})
                = Cardinality(ErrorInstances)
          /\ Len(cs_builds) = Len(Found(cs_suites))

\* check_status has returned a status folded from a build that came after a
\* test instance whose testing service raised
C7_Witness ==
    /\ cs_pc = "returned"
    /\ cs_status # NOT_AVAILABLE
    /\ \E si \in ErrorInstances :
          \E x \in DOMAIN cs_builds :
              \/ cs_builds[x].instance[1] > si[1]
              \/ cs_builds[x].instance[1] = si[1] /\ cs_builds[x].instance[2] > si[2]

\* the suites of the argument that have no test instance
EmptySuites == {s \in DOMAIN cs_suites : Len(cs_suites[s]) = 0}

\* C21: with no suite, check_status returns NOT_AVAILABLE, no build and the one
\* issue that no suite is configured; a suite without test instances adds
\* exactly one issue, for that suite, and the step that adds it leaves the
\* status and the builds as they are.
C21_EmptyInput ==
    /\ []((cs_pc = "returned" /\ cs_suites = <<>>) =>
            (/\ cs_status = NOT_AVAILABLE
             /\ cs_builds = <<>>
             /\ cs_issues = <<[kind |-> "no_suite"]>>))
    /\ []((cs_pc = "returned" /\ cs_suites # <<>>) =>
            (/\ \A s \in EmptySuites :
                   Cardinality({x \in DOMAIN cs_issues :
                                   cs_issues[x] = [kind |-> "no_instance", suite |-> s]}) = 1
             /\ Cardinality({x \in DOMAIN cs_issues : cs_issues[x].kind = "no_instance"})
                   = Cardinality(EmptySuites)
             /\ \A x \in DOMAIN cs_issues : cs_issues[x].kind # "no_suite"))
    /\ [][cs_pc = "suite" => (cs_status' = cs_status /\ cs_builds' = cs_builds)]_vars

\* check_status has returned for a list holding a suite without test
\* instances and a suite whose build was folded
C21_Witness ==
    /\ cs_pc = "returned"
    /\ EmptySuites # {}
    /\ cs_status # NOT_AVAILABLE

\* the moves of the status that the reduction allows
StatusMoves ==
    {<<None, NOT_AVAILABLE>>,
     <<NOT_AVAILABLE, ALL_PASSING>>, <<NOT_AVAILABLE, ALL_FAILING>>,
     <<ALL_PASSING, SOME_PASSING>>, <<ALL_FAILING, SOME_PASSING>>}

\* C24: during a scan the status only moves NOT_AVAILABLE -> ALL_PASSING or
\* ALL_FAILING -> SOME_PASSING; _update_status never returns NOT_AVAILABLE,
\* never turns ALL_PASSING into ALL_FAILING or back, and keeps SOME_PASSING.
C24_MonotoneStatus ==
    /\ [][cs_status' # cs_status => <<cs_status, cs_status'>> \in StatusMoves]_vars
    /\ [](\A st \in {NOT_AVAILABLE, ALL_PASSING, ALL_FAILING, SOME_PASSING} :
            \A passing \in BOOLEAN :
                LET new == update_status(st, passing)
                IN /\ new # NOT_AVAILABLE
                   /\ new # st => <<st, new>> \in StatusMoves
                   /\ st = SOME_PASSING => new = SOME_PASSING)

\* the status is SOME_PASSING and a further build is about to be folded
C24_Witness ==
    /\ cs_pc = "instance"
    /\ cs_status = SOME_PASSING
    /\ cs_suites[cs_pos.s][cs_pos.i] \in {"passed", "failed"}

\* SuiteStatus(suite): the status of check_status([suite])
SuiteStatusOf(suite) == FoldFrom(NOT_AVAILABLE, Found(<<suite>>))

\* the combination of the statuses of the suites
Combine(sts) ==
    LET available == {x \in DOMAIN sts : sts[x] # NOT_AVAILABLE}
    IN IF available = {} THEN NOT_AVAILABLE
       ELSE IF \A x \in available : sts[x] = ALL_PASSING THEN ALL_PASSING
       ELSE IF \A x \in available : sts[x] = ALL_FAILING THEN ALL_FAILING
       ELSE SOME_PASSING

\* C25: the status of check_status over all the suites is the combination of
\* the statuses of the single suites, and its latest builds are those of the
\* suites one after the other.
C25_WorkflowVsSuites ==
    cs_pc = "returned" =>
        /\ cs_status = Combine([s \in DOMAIN cs_suites |-> SuiteStatusOf(cs_suites[s])])
        /\ [x \in DOMAIN cs_builds |-> cs_builds[x].status]
              = Flatten([s \in DOMAIN cs_suites |-> Found(<<cs_suites[s]>>)])
        /\ \A x \in DOMAIN cs_builds :
              cs_suites[cs_builds[x].instance[1]][cs_builds[x].instance[2]] = cs_builds[x].status

\* check_status has returned SOME_PASSING for an all-passing suite followed by
\* an all-failing one
C25_Witness ==
    /\ cs_pc = "returned"
    /\ Len(cs_suites) = 2
    /\ SuiteStatusOf(cs_suites[1]) = ALL_PASSING
    /\ SuiteStatusOf(cs_suites[2]) = ALL_FAILING
    /\ cs_status = SOME_PASSING

\* C27: every test instance gives one build or one issue of its own, so the
\* builds and the instance issues together number the test instances, and the
\* status returned is NOT_AVAILABLE exactly when no build was found.
C27_Accounting ==
    cs_pc = "returned" =>
        /\ Len(cs_builds)
              + Cardinality({x \in DOMAIN cs_issues :
                                cs_issues[x].kind \in {"no_build", "service_error"}})
              = Len(Flatten(cs_suites))
        /\ \A s \in DOMAIN cs_suites : \A i \in DOMAIN cs_suites[s] :
              Cardinality({x \in DOMAIN cs_builds : cs_builds[x].instance = <<s, i>>})
                + Cardinality({x \in DOMAIN cs_issues :
                                  /\ cs_issues[x].kind = "no_build"
                                  /\ cs_issues[x].test_instance = <<s, i>>})
                + Cardinality({x \in DOMAIN cs_issues :
                                  /\ cs_issues[x].kind = "service_error"
                                  /\ cs_issues[x].resource = <<s, i>>})
                = 1
        /\ (cs_status = NOT_AVAILABLE) <=> (cs_builds = <<>>)

\* check_status has returned with a build, a missing build and a service error
C27_Witness ==
    /\ cs_pc = "returned"
    /\ cs_builds # <<>>
    /\ \E x \in DOMAIN cs_issues : cs_issues[x].kind = "no_build"
    /\ \E x \in DOMAIN cs_issues : cs_issues[x].kind = "service_error"

(***************************************************************************)
(* Workflow.check_health / WorkflowVersion.check_health                    *)
(***************************************************************************)
\* what the testing service answers for the last build of a test instance: a
\* successful build, an unsuccessful one, or a TestingServiceException
HealthAnswers == {"passed", "failed", "error"}

\* the lists of suites handed to check_health
HealthSuiteLists == SeqsUpTo(SeqsUpTo(HealthAnswers, MaxInstances), 2)

\* the body of the two loops from the dictionary h over the answers that remain:
\* if not ...last_test_build.is_successful(): health["healthy"] = False
\* except TestingServiceException: issues.append(str(e)); health["healthy"] = "Unknown"
RECURSIVE health_loop(_, _)
health_loop(h, answers) ==
    IF answers = <<>> THEN h
    ELSE LET a == Head(answers)
             h1 == IF a = "error"
                   THEN [healthy |-> "Unknown", issues |-> Append(h.issues, "str(e)")]
                   ELSE IF a = "failed"
                   THEN [h EXCEPT !.healthy = "False"]
                   ELSE h
         IN health_loop(h1, Tail(answers))

\* health = {'healthy': True, 'issues': []}; for suite in self.test_suites:
\* for test_instance in suite.test_instances: ...; return health
check_health(suites) == health_loop([healthy |-> "True", issues |-> <<>>], Flatten(suites))

\* the other parts are at rest while check_health is called
OtherThanHealthRest ==
    UNCHANGED <<pollVars, statusVars, mailVars, lifeVars, schedVars, run2Vars, regVars>>

\* one call of check_health
H_Call ==
    /\ OtherThanHealthRest
    /\ h_pc = "rest"
    /\ health' = check_health(h_suites)
    /\ h_pc' = "returned"
    /\ UNCHANGED h_suites

HealthInit ==
    /\ h_suites \in HealthSuiteLists
    /\ h_pc = "rest"
    /\ health = NoHealth

InitHealth ==
    PollInit /\ StatusRest /\ MailRest /\ LifeRest /\ SchedRest /\ Run2Rest /\ HealthInit /\ RegRest

HealthNext == H_Call

SpecHealth == InitHealth /\ [][HealthNext]_vars

(***************************************************************************)
(* The versions of a workflow: add_version and WorkflowVersion.delete      *)
(***************************************************************************)
WorkflowIds == {"w1", "w2"}

\* the values of WorkflowVersion.version, the keys of the collection `versions`
VersionLabels == {"1.0", "1.1", "2.0", "2.1"}

\* the other parts are at rest while the registry is changed
OtherThanRegRest ==
    UNCHANGED <<pollVars, statusVars, mailVars, lifeVars, schedVars, run2Vars, healthVars>>

\* Workflow.add_version: WorkflowVersion(self, uri, version, submitter, ...),
\* whose constructor sets self.workflow = workflow and so enters the collection
\* under the key `version`
add_version(w, version) ==
    /\ OtherThanRegRest
    /\ w \in live
    /\ versions' = [versions EXCEPT ![w] = @ \cup {version}]
    /\ UNCHANGED live

\* WorkflowVersion.delete keeping the workflow when its only version goes
delete_KeepsWorkflow(w, version) ==
    /\ OtherThanRegRest
    /\ w \in live
    /\ version \in versions[w]
    /\ versions' = [versions EXCEPT ![w] = @ \ {version}]
    /\ UNCHANGED live

\* WorkflowVersion.delete: if len(self.workflow.versions) > 1:
\* self.workflow.remove_version(self); workflow.save() else: self.workflow.delete()
delete(w, version) ==
    /\ OtherThanRegRest
    /\ w \in live
    /\ version \in versions[w]
    /\ IF Cardinality(versions[w]) > 1
       THEN /\ versions' = [versions EXCEPT ![w] = @ \ {version}]
            /\ UNCHANGED live
       ELSE /\ live' = live \ {w}
            /\ versions' = [versions EXCEPT ![w] = {}]

\* every workflow of the registry was registered with a first version
RegInit ==
    /\ live = WorkflowIds
    /\ versions \in [WorkflowIds -> SUBSET VersionLabels \ {{}}]

InitReg ==
    PollInit /\ StatusRest /\ MailRest /\ LifeRest /\ SchedRest /\ Run2Rest /\ HealthRest /\ RegInit

RegNext ==
    \/ \E w \in WorkflowIds, version \in VersionLabels : add_version(w, version)
    \/ \E w \in WorkflowIds, version \in VersionLabels : delete(w, version)

SpecReg == InitReg /\ [][RegNext]_vars

(***************************************************************************)
(* Properties of send_email_notifications                                  *)
(***************************************************************************)
\* the recipient has email notifications disabled or has no address
Excluded(u) == ~enabled[u] \/ email[u] = None

\* C8: a recipient with email notifications disabled, or without an address,
\* never has its emailed value set, and contributes no entry to a recipient
\* list handed to the mail transport.
C8_RecipientExclusion ==
    /\ \A n \in Range(Notifs) : \A u \in Range(NotifUsers(n)) :
          Excluded(u) => emailed[n][u] = Unset
    /\ \A x \in DOMAIN m_calls :
          Len(m_calls[x].recipients)
              <= Cardinality({u \in Range(NotifUsers(m_calls[x].n)) : ~Excluded(u)})

\* C12: a notification processed with no eligible recipient is left as it is:
\* no emailed value changes and it is not counted as sent, whatever the mail
\* transport returned for it.
C12_EmptySubsetUntouched ==
    [][(m_pc = "record" /\ m_recipients = <<>>)
          => (emailed' = emailed /\ m_count' = m_count)]_vars

\* C13: an emailed value that is set is never cleared nor replaced by another
\* value, by any later step of any run of the dispatcher.
C13_EmailedAppendOnly ==
    [][\A n \in Range(Notifs) : \A u \in Range(NotifUsers(n)) :
          emailed[n][u] # Unset => emailed'[n][u] = emailed[n][u]]_vars

\* C19: when the mail transport does not deliver a notification, because it
\* raised or reported no delivery, the run goes on with the pending
\* notifications that remain.
C19_DispatchIsolation ==
    [][(m_pc = "send" /\ m_todo # <<>> /\ m_calls' # m_calls /\ m_pc' # "record")
          => m_todo' = Tail(m_todo)]_vars

\* C22: the call of the transport carries the whole eligible list and changes
\* neither an emailed value nor the count; only a reported delivery is
\* recorded, and then exactly the recipients that were in the list get the
\* returned value, the others and the other notifications keep theirs, and the
\* count grows by one.
C22_BookkeepingFollowsOutcome ==
    [][/\ (m_pc = "send" /\ m_calls' # m_calls) =>
            /\ Len(m_calls') = Len(m_calls) + 1
            /\ m_calls'[Len(m_calls')].recipients = Recipients(Head(m_todo))
            /\ emailed' = emailed
            /\ m_count' = m_count
       /\ m_pc = "record" =>
            LET n == Head(m_todo)
            IN /\ \A u \in Range(NotifUsers(n)) :
                     emailed'[n][u] = IF Eligible(n, u) THEN m_sent ELSE emailed[n][u]
               /\ \A k \in Range(Notifs) \ {n} : emailed'[k] = emailed[k]
               /\ m_count' = m_count + 1]_vars

\* the successful calls of the transport for notification n that carry address a
Deliveries(n, a) ==
    {x \in DOMAIN m_calls :
        /\ m_calls[x].n = n
        /\ m_calls[x].sent # Unset
        /\ a \in Range(m_calls[x].recipients)}

\* C23: over sequential and overlapping runs, the address of a recipient is
\* part of at most one successful call of the transport for a notification,
\* and no call carries the address of a recipient whose emailed value is set.
C23_AtMostOneDelivery ==
    /\ [](\A n \in Range(Notifs) : \A u \in Range(NotifUsers(n)) :
            email[u] # None => Cardinality(Deliveries(n, email[u])) <= 1)
    /\ [][m_calls' # m_calls =>
            LET call == m_calls'[Len(m_calls')]
            IN \A u \in Range(NotifUsers(call.n)) :
                  (emailed[call.n][u] # Unset /\ email[u] # None)
                      => email[u] \notin Range(call.recipients)]_vars

EverCreated(P(_)) ==
    Cardinality({n \in BagToSet(notifications) : P(n)})
        + Cardinality({n \in purged : P(n)})

\* C14: with build histories that do not change, at most one notification is
\* ever created for a (triggering build, FAILED|RECOVERED) event, over any
\* interleaving of detection passes and purges.
C14_OneAlertPerEvent ==
    \A i \in AllInstances, id \in 1..2, e \in {"FAILED", "RECOVERED"} :
        LET SameEvent(n) == n.name = <<BuildStr(i, [id |-> id]), e>>
        IN EverCreated(SameEvent) <= 1

\* C15: a purge deletes only notifications created at least a week before it.
C15_PurgeRespectsRetention ==
    [][\A n \in BagToSet(notifications) :
          n \notin BagToSet(notifications') => now - n.created >= Week]_vars

\* C18: a user without address is referenced by at most one
\* UnconfiguredEmailNotification ever created, and a user with an address by none.
C18_FlaggedOnce ==
    \A u \in Users :
        LET Flags(n) == n.event = "UNCONFIGURED_EMAIL" /\ u \in n.users
        IN EverCreated(Flags) <= (IF email[u] = None THEN 1 ELSE 0)

\* C26: no exception leaves the body of check_email_configuration: whichever
\* step fails, the job catches it and returns.
C26_NothingEscapes == e_pc # "escaped"

(***************************************************************************)
(* Properties of check_health and of the versions of a workflow            *)
(***************************************************************************)
\* 'healthy' as a function of the set of the answers
HealthOf(answers) ==
    IF "error" \in answers THEN "Unknown"
    ELSE IF "failed" \in answers THEN "False"
    ELSE "True"

\* C29: 'healthy' is True when every last build was fetched and is successful,
\* 'Unknown' when a fetch raised a TestingServiceException, False otherwise,
\* in whatever order the test instances are visited, and 'issues' has one
\* message for each fetch that raised.
C29_HealthOfOutcomes ==
    h_pc = "returned" =>
        /\ health.healthy = HealthOf(Range(Flatten(h_suites)))
        /\ Len(health.issues)
              = Len(SelectSeq(Flatten(h_suites), LAMBDA a : a = "error"))

\* C30: no workflow of the registry is without version; deleting a version of
\* a workflow that has others removes that version alone, and deleting the
\* only version of a workflow deletes the workflow.
C30_NeverEmpty ==
    /\ [](\A w \in live : versions[w] # {})
    /\ [][\A w \in live :
            (versions'[w] # versions[w] /\ versions'[w] \subseteq versions[w]) =>
                /\ \A o \in WorkflowIds \ {w} :
                      versions'[o] = versions[o] /\ (o \in live' <=> o \in live)
                /\ IF Cardinality(versions[w]) > 1
                   THEN /\ w \in live'
                        /\ Cardinality(versions'[w]) = Cardinality(versions[w]) - 1
                   ELSE w \notin live']_vars

\* a workflow was deleted through its only version, and the other workflow is
\* left with one version
C30_Witness ==
    /\ "w1" \notin live
    /\ "w2" \in live
    /\ Cardinality(versions["w2"]) = 1

(***************************************************************************)
(* Properties of the scheduled jobs                                        *)
(***************************************************************************)
\* C16: two workers never execute the body of the same job at the same time.
C16_NoSameJobOverlap ==
    \A p, q \in Workers :
        (p # q /\ running[p] # NoMsg /\ running[q] # NoMsg)
            => running[p].job # running[q].job

\* C17: a message that waited longer than TASK_EXPIRATION_TIME, whatever its
\* job, is taken from the queue without its body being started, and a body
\* that has started ends only by returning, however old its message is.
C17_AgeExpiration ==
    /\ [](\A p \in Workers :
            running[p] # NoMsg => running[p].started - running[p].sent <= TASK_EXPIRATION_TIME)
    /\ [][\A p \in Workers :
            /\ (running[p] = NoMsg /\ queue' # queue /\ Len(queue') < Len(queue)
                   /\ ended'[p] # ended[p] /\ clock - Head(queue).sent > TASK_EXPIRATION_TIME)
                  => (running'[p] = NoMsg /\ ended'[p] = "discarded")
            /\ (running[p] # NoMsg /\ running'[p] # running[p])
                  => (running'[p] = NoMsg /\ ended'[p] = "done")]_vars

\* a worker has discarded a stale message while the other executes a body
\* whose message is by now older than the expiration time
C17_Witness ==
    \E p, q \in Workers :
        /\ ended[p] = "discarded"
        /\ running[q] # NoMsg
        /\ clock - running[q].sent > TASK_EXPIRATION_TIME

====
